---- MODULE Spec2Model ----
(***************************************************************************)
(* Model of the chat widget's conversation state machine                   *)
(* (ChatInterface, Header and CDPProvider of the cdp-support-bot frontend).*)
(*                                                                         *)
(* One action per event handler / continuation of the single UI thread:    *)
(* typing, handleSend up to its await, handleSend after its await (both    *)
(* the try and the catch path), the 500 ms bot-bubble timer, the header's  *)
(* clear-chat handler, the platform selector and a page (re)load; op names *)
(* the one that ran last and toasts holds what it passed to toast().  The  *)
(* "persist" effect (useEffect on [messages]) runs after every render that *)
(* changed the list, so each action that changes the list also writes      *)
(* chatHistory.  sends holds the locals of every handleSend call (its      *)
(* messageId, where it stands, its botMessage), network the requests the   *)
(* answer service has not settled yet.  fatal says that a state            *)
(* initializer threw while the page was being rendered: nothing is mounted *)
(* then and no handler can run.                                            *)
(*                                                                         *)
(* Text is a sequence of one-character strings so that trim() can be       *)
(* computed.  Math.random() ids are modelled as fresh tokens (a counter);  *)
(* the same counter is the logical clock behind new Date(): it ticks once  *)
(* per message created.                                                    *)
(***************************************************************************)
EXTENDS Naturals, Integers, Sequences, FiniteSets, TLC

VARIABLES messages, input, isLoading, selectedPlatform, localStorage,
          sends, network, nextId, toasts, op, fatal

vars == <<messages, input, isLoading, selectedPlatform, localStorage,
          sends, network, nextId, toasts, op, fatal>>

(* ---------------------------------------------------------------- bounds *)
\* accepted handleSend invocations over a run
MaxSends == 2

(* ------------------------------------------------------------ input sets *)
\* what the user can have typed in the input field
InputTexts == { <<>>, <<" ">>, <<" ", "a">> }
\* response strings the answer service can return
ResponseTexts == { <<"X">> }
\* option values of the platform Select (one of the eight in Header),
\* "" is the placeholder option
platforms == { "Segment" }
NoPlatform == "null"

(* --------------------------------------------------------- pure helpers *)
\* String.prototype.trim on a sequence of characters
RECURSIVE trimStart(_)
trimStart(s) ==
    IF s = <<>> THEN <<>>
    ELSE IF Head(s) = " " THEN trimStart(Tail(s)) ELSE s

RECURSIVE trimEnd(_)
trimEnd(s) ==
    IF s = <<>> THEN <<>>
    ELSE IF s[Len(s)] = " " THEN trimEnd(SubSeq(s, 1, Len(s) - 1)) ELSE s

\* a trim that strips nothing
trimNothing(s) == s

trim(s) == trimEnd(trimStart(s))

\* JS truthiness of a string
Truthy(s) == s # <<>>

(* ------------------------------------------------------- local storage *)
\* getItem gives null for a key never set, else the string last set; the
\* chatHistory string is held as the JSON value it spells
NullItem == [kind |-> "null"]
StringItem(v) == [kind |-> "string", value |-> v]
\* the string '', a string that is no JSON text, and a JSON text that spells
\* something other than an array (such as '{}')
EmptyStringItem == [kind |-> "empty"]
GarbageItem == [kind |-> "garbage"]
NonListItem == [kind |-> "nonlist"]

\* what chatHistory can hold when the page is first loaded: the origin's
\* storage is shared with whatever else runs on it
InitialChatHistory == { NullItem, EmptyStringItem, GarbageItem, NonListItem }

\* the messages initializer throws: JSON.parse rejects the string (SyntaxError)
\* or parsedMessages.map is not a function (TypeError)
RestoreThrows(item) == item.kind \in {"garbage", "nonlist"}

\* Date.prototype.toJSON / new Date(isoString): millisecond precision both ways
DateToJSON(d) == [iso |-> d.ms]
DateFromJSON(j) == [ms |-> j.iso]

\* JSON.stringify(messages): one object per message, Date as ISO string
Stringify(msgs) ==
    [i \in 1..Len(msgs) |->
        [id        |-> msgs[i].id,
         content   |-> msgs[i].content,
         isUser    |-> msgs[i].isUser,
         timestamp |-> DateToJSON(msgs[i].timestamp),
         status    |-> msgs[i].status]]

\* useState initializer of messages: getItem, JSON.parse, revive timestamps
RestoreMessages(item) ==
    IF item.kind = "string"
    THEN [i \in 1..Len(item.value) |->
            [item.value[i] EXCEPT !.timestamp = DateFromJSON(@)]]
    ELSE <<>>

\* an effect that never runs
PersistEffectNever(store, msgs) == store

\* an effect that skips the write when the list is empty
PersistEffectNonEmpty(store, msgs) ==
    IF msgs = <<>> THEN store
    ELSE [store EXCEPT !.chatHistory = StringItem(Stringify(msgs))]

\* an effect that removes the entry when the list is empty
PersistEffectRemovesEmpty(store, msgs) ==
    IF msgs = <<>> THEN [store EXCEPT !.chatHistory = NullItem]
    ELSE [store EXCEPT !.chatHistory = StringItem(Stringify(msgs))]

\* useEffect(() => localStorage.setItem('chatHistory', ...), [messages])
PersistEffect(store, msgs) ==
    [store EXCEPT !.chatHistory = StringItem(Stringify(msgs))]

(* ------------------------------------------------------ list operations *)
\* an append that puts the new message first
PrependMessage(prev, m) == <<m>> \o prev

\* setMessages(prev => [...prev, m])
AppendMessage(prev, m) == Append(prev, m)

\* a status update that ignores the id and rewrites the newest pending message
MarkStatusNewestPending(prev, messageId, st) ==
    LET P == { k \in 1..Len(prev) : prev[k].isUser /\ prev[k].status = "sent" }
    IN  IF P = {} THEN prev
        ELSE [prev EXCEPT ![CHOOSE k \in P : \A j \in P : j <= k].status = st]

\* a status update that ignores the id and rewrites every user message
MarkStatusEvery(prev, messageId, st) ==
    [k \in 1..Len(prev) |->
        IF prev[k].isUser THEN [prev[k] EXCEPT !.status = st] ELSE prev[k]]

\* a status update that ignores the id and rewrites every message
MarkStatusAllMessages(prev, messageId, st) ==
    [k \in 1..Len(prev) |-> [prev[k] EXCEPT !.status = st]]

\* setMessages(prev => prev.map(msg => msg.id === id ? {...msg, status} : msg))
MarkStatus(prev, messageId, st) ==
    [k \in 1..Len(prev) |->
        IF prev[k].id = messageId THEN [prev[k] EXCEPT !.status = st]
        ELSE prev[k]]

\* a userMessage literal that stores the trimmed text
UserMessageTrimmed(text, messageId) ==
    [content |-> trim(text), isUser |-> TRUE, timestamp |-> [ms |-> messageId],
     status |-> "sent", id |-> messageId]

\* the userMessage literal of handleSend
UserMessage(text, messageId) ==
    [content |-> text, isUser |-> TRUE, timestamp |-> [ms |-> messageId],
     status |-> "sent", id |-> messageId]

\* a botMessage literal that reads a field the payload does not have
BotMessageNoContent(text, botId) ==
    [content |-> <<>>, isUser |-> FALSE, timestamp |-> [ms |-> botId],
     status |-> "delivered", id |-> botId]

\* the botMessage literal of handleSend
BotMessage(text, botId) ==
    [content |-> text, isUser |-> FALSE, timestamp |-> [ms |-> botId],
     status |-> "delivered", id |-> botId]

(* ----------------------------------------------- answer-service outcomes *)
NoId == 0

\* what axios.post can settle with: a 2xx whose body has a response string,
\* an empty one or none; a non-2xx with or without a detail; no response at all
Outcomes ==
    { [kind |-> "2xx", hasResponse |-> TRUE, response |-> r, hasDetail |-> FALSE]
        : r \in ResponseTexts \cup { <<>> } }
    \cup { [kind |-> "2xx", hasResponse |-> FALSE, response |-> <<>>, hasDetail |-> FALSE] }
    \cup { [kind |-> "non2xx", hasResponse |-> FALSE, response |-> <<>>, hasDetail |-> d]
        : d \in BOOLEAN }
    \cup { [kind |-> "network", hasResponse |-> FALSE, response |-> <<>>, hasDetail |-> FALSE] }

\* a validation that looks at the status only
SucceedsOnAny2xx(o) == o.kind = "2xx"

\* the try block reaches the botMessage literal: axios resolved (2xx) and
\* !response.data || !response.data.response is false
Succeeds(o) == o.kind = "2xx" /\ o.hasResponse /\ Truthy(o.response)

\* error?.response?.data?.detail: the detail of the answer's body, "" for none
ErrorDetail(o) == IF o.kind = "non2xx" /\ o.hasDetail THEN "detail" ELSE ""

\* error?.message: the message axios gives its rejections, or the message of
\* the Error the validation throws
ErrorMessage(o) ==
    IF o.kind = "non2xx" THEN "Request failed with status code"
    ELSE IF o.kind = "network" THEN "Network Error"
    ELSE "Invalid response format from server"

\* a description that does not look at the answer's body
ErrorDescriptionMessageOnly(o) ==
    IF ErrorMessage(o) # "" THEN ErrorMessage(o) ELSE "Failed to get response"

\* error?.response?.data?.detail || error?.message || 'Failed to get response'
ErrorDescription(o) ==
    IF ErrorDetail(o) # "" THEN ErrorDetail(o)
    ELSE IF ErrorMessage(o) # "" THEN ErrorMessage(o)
    ELSE "Failed to get response"

\* toasts holds what the handler that ran last passed to toast(), in call order
NoToasts == <<>>
Toast(title, description, status) ==
    [title |-> title, description |-> description, status |-> status]

\* the handler that ran last; a resume names the call it continued and what
\* axios.post settled with
Op(name) == [name |-> name]
\* a load also names the kind of chatHistory item its initializer read
LoadOp(item) == [name |-> "load", chatHistory |-> item.kind]

(* ------------------------------------------------------------------ Init *)
\* first load of the page, after the mount effects ran (they do not run when
\* an initializer threw)
Init ==
    \E item \in InitialChatHistory :
      LET store == [chatHistory |-> item, selectedPlatform |-> NullItem] IN
        /\ fatal = RestoreThrows(item)
        /\ messages = IF fatal THEN <<>> ELSE RestoreMessages(item)
        /\ input = <<>>
        /\ isLoading = FALSE
        /\ selectedPlatform = NoPlatform
        /\ localStorage = IF fatal THEN store ELSE PersistEffect(store, messages)
        /\ sends = <<>>
        /\ network = {}
        /\ nextId = 1
        /\ toasts = NoToasts
        /\ op = LoadOp(item)

(* --------------------------------------------------------------- actions *)
\* <Input onChange={(e) => setInput(e.target.value)}>
TypeInput(text) ==
    /\ ~fatal
    /\ input' = text
    /\ op' = Op("type")
    /\ toasts' = NoToasts
    /\ UNCHANGED <<messages, isLoading, selectedPlatform, localStorage,
                   sends, network, nextId, fatal>>

\* <Select onChange>: value || null into the context, value || '' into storage
SelectPlatform(value) ==
    /\ ~fatal
    /\ selectedPlatform' = IF value = "" THEN NoPlatform ELSE value
    /\ localStorage' = [localStorage EXCEPT !.selectedPlatform = StringItem(value)]
    /\ op' = Op("select")
    /\ toasts' = NoToasts
    /\ UNCHANGED <<messages, input, isLoading, sends, network, nextId, fatal>>

\* a payload literal without the || 'Other'
PayloadWithoutFallback(messageId, text, platform) ==
    [of |-> messageId, message |-> text, platform |-> platform]

\* the payload literal of handleSend, tagged with the call it belongs to
Payload(messageId, text, platform) ==
    [of       |-> messageId,
     message  |-> text,
     platform |-> IF platform = NoPlatform THEN "Other" ELSE platform]

\* handleSend from its first line to the await of axios.post
HandleSend ==
    /\ ~fatal
    /\ op' = Op("send")
    /\ toasts' = NoToasts
    /\ UNCHANGED fatal
    /\ IF ~Truthy(trim(input))
       THEN UNCHANGED <<messages, input, isLoading, selectedPlatform,
                        localStorage, sends, network, nextId>>
       ELSE /\ Len(sends) < MaxSends
            /\ messages' = AppendMessage(messages, UserMessage(input, nextId))
            /\ input' = <<>>
            /\ isLoading' = TRUE
            /\ sends' = Append(sends, [messageId |-> nextId, pc |-> "await",
                                       botContent |-> <<>>, botId |-> NoId])
            /\ network' = network \cup { Payload(nextId, input, selectedPlatform) }
            /\ nextId' = nextId + 1
            /\ localStorage' = PersistEffect(localStorage, messages')
            /\ UNCHANGED selectedPlatform

\* a handler that releases the loading flag at the end of the try block
\* instead of in a finally
HandleSendResumeNoFinally(i, o) ==
    /\ ~fatal
    /\ sends[i].pc = "await"
    /\ op' = [name |-> "resume", of |-> i, outcome |-> o]
    /\ network' = { r \in network : r.of # sends[i].messageId }
    /\ IF Succeeds(o)
       THEN /\ messages' = MarkStatus(messages, sends[i].messageId, "delivered")
            /\ sends' = [sends EXCEPT ![i].pc = "timer",
                                      ![i].botContent = o.response,
                                      ![i].botId = nextId]
            /\ nextId' = nextId + 1
            /\ toasts' = NoToasts
            /\ isLoading' = FALSE
       ELSE /\ messages' = MarkStatus(messages, sends[i].messageId, "error")
            /\ sends' = [sends EXCEPT ![i].pc = "failed"]
            /\ nextId' = nextId
            /\ toasts' = <<Toast("Error", ErrorDescription(o), "error")>>
            /\ isLoading' = isLoading
    /\ localStorage' = PersistEffect(localStorage, messages')
    /\ UNCHANGED <<input, selectedPlatform, fatal>>

\* a try path that appends the bot message at once, without the timer
HandleSendResumeNoDelay(i, o) ==
    /\ ~fatal
    /\ sends[i].pc = "await"
    /\ op' = [name |-> "resume", of |-> i, outcome |-> o]
    /\ network' = { r \in network : r.of # sends[i].messageId }
    /\ IF Succeeds(o)
       THEN /\ messages' = AppendMessage(
                              MarkStatus(messages, sends[i].messageId, "delivered"),
                              BotMessage(o.response, nextId))
            /\ sends' = [sends EXCEPT ![i].pc = "done",
                                      ![i].botContent = o.response,
                                      ![i].botId = nextId]
            /\ nextId' = nextId + 1
            /\ toasts' = NoToasts
       ELSE /\ messages' = MarkStatus(messages, sends[i].messageId, "error")
            /\ sends' = [sends EXCEPT ![i].pc = "failed"]
            /\ nextId' = nextId
            /\ toasts' = <<Toast("Error", ErrorDescription(o), "error")>>
    /\ isLoading' = FALSE
    /\ localStorage' = PersistEffect(localStorage, messages')
    /\ UNCHANGED <<input, selectedPlatform, fatal>>

\* a catch path that posts the payload again and awaits again
HandleSendResumeRetrying(i, o) ==
    /\ ~fatal
    /\ sends[i].pc = "await"
    /\ op' = [name |-> "resume", of |-> i, outcome |-> o]
    /\ IF Succeeds(o)
       THEN /\ messages' = MarkStatus(messages, sends[i].messageId, "delivered")
            /\ sends' = [sends EXCEPT ![i].pc = "timer",
                                      ![i].botContent = o.response,
                                      ![i].botId = nextId]
            /\ network' = { r \in network : r.of # sends[i].messageId }
            /\ nextId' = nextId + 1
            /\ isLoading' = FALSE
       ELSE UNCHANGED <<messages, sends, network, nextId, isLoading>>
    /\ toasts' = NoToasts
    /\ localStorage' = PersistEffect(localStorage, messages')
    /\ UNCHANGED <<input, selectedPlatform, fatal>>

\* handleSend after the await: try path, catch path and finally
HandleSendResume(i, o) ==
    /\ ~fatal
    /\ sends[i].pc = "await"
    /\ op' = [name |-> "resume", of |-> i, outcome |-> o]
    /\ network' = { r \in network : r.of # sends[i].messageId }
    /\ IF Succeeds(o)
       THEN /\ messages' = MarkStatus(messages, sends[i].messageId, "delivered")
            /\ sends' = [sends EXCEPT ![i].pc = "timer",
                                      ![i].botContent = o.response,
                                      ![i].botId = nextId]
            /\ nextId' = nextId + 1
            /\ toasts' = NoToasts
       ELSE /\ messages' = MarkStatus(messages, sends[i].messageId, "error")
            /\ sends' = [sends EXCEPT ![i].pc = "failed"]
            /\ nextId' = nextId
            /\ toasts' = <<Toast("Error", ErrorDescription(o), "error")>>
    /\ isLoading' = FALSE
    /\ localStorage' = PersistEffect(localStorage, messages')
    /\ UNCHANGED <<input, selectedPlatform, fatal>>

\* setTimeout(() => setMessages(prev => [...prev, botMessage]), 500)
BotTimer(i) ==
    /\ ~fatal
    /\ i \in 1..Len(sends)
    /\ sends[i].pc = "timer"
    /\ op' = Op("timer")
    /\ messages' = AppendMessage(messages,
                      BotMessage(sends[i].botContent, sends[i].botId))
    /\ sends' = [sends EXCEPT ![i].pc = "done"]
    /\ localStorage' = PersistEffect(localStorage, messages')
    /\ toasts' = NoToasts
    /\ UNCHANGED <<input, isLoading, selectedPlatform, network, nextId, fatal>>

\* a listener that leaves the list alone
ClearChatListenerKeeps(prev) == prev

\* the ChatInterface listener of the 'clearChat' event
ClearChatListener(prev) == <<>>

\* a clear-chat handler that also resets the platform selection
HandleClearChatAndPlatform ==
    /\ ~fatal
    /\ op' = Op("clear")
    /\ messages' = <<>>
    /\ selectedPlatform' = NoPlatform
    /\ localStorage' = [PersistEffect(localStorage, messages')
                           EXCEPT !.selectedPlatform = NullItem]
    /\ toasts' = <<Toast("Chat cleared", "", "info")>>
    /\ UNCHANGED <<input, isLoading, sends, network, nextId, fatal>>

\* Header.handleClearChat: clearChat() dispatches the event, handleClearChat
\* dispatches it again, the listener runs both times; then the toast
HandleClearChat ==
    /\ ~fatal
    /\ op' = Op("clear")
    /\ messages' = ClearChatListener(ClearChatListener(messages))
    /\ localStorage' = PersistEffect(localStorage, messages')
    /\ toasts' = <<Toast("Chat cleared", "", "info")>>
    /\ UNCHANGED <<input, isLoading, selectedPlatform, sends, network, nextId,
                   fatal>>

\* a new instance of the page: state initializers, then the mount effects;
\* the handlers of the old page never run again
Reload ==
    /\ op' = LoadOp(localStorage.chatHistory)
    /\ fatal' = RestoreThrows(localStorage.chatHistory)
    /\ messages' = IF fatal' THEN <<>>
                   ELSE RestoreMessages(localStorage.chatHistory)
    /\ input' = <<>>
    /\ isLoading' = FALSE
    /\ selectedPlatform' = NoPlatform
    /\ localStorage' = IF fatal' THEN localStorage
                       ELSE PersistEffect(localStorage, messages')
    /\ sends' = [i \in 1..Len(sends) |->
                    [messageId |-> sends[i].messageId, pc |-> "unloaded",
                     botContent |-> <<>>, botId |-> NoId]]
    /\ network' = {}
    /\ toasts' = NoToasts
    /\ UNCHANGED nextId

Next ==
    \/ \E text \in InputTexts : TypeInput(text)
    \/ \E value \in platforms \cup {""} : SelectPlatform(value)
    \/ HandleSend
    \/ \E i \in 1..Len(sends) : \E o \in Outcomes : HandleSendResume(i, o)
    \/ \E i \in 1..Len(sends) : BotTimer(i)
    \/ HandleClearChat
    \/ Reload

Spec == Init /\ [][Next]_vars

\* a timer set by setTimeout fires unless the page is unloaded first
FairSpec == Spec /\ \A i \in 1..MaxSends : WF_vars(BotTimer(i))

(* ------------------------------------------------- vocabulary of claims *)
\* empty or whitespace-only text
Blank(s) == \A k \in 1..Len(s) : s[k] = " "

\* positions of the messages with a given id
PositionsOf(msgs, id) == { k \in 1..Len(msgs) : msgs[k].id = id }

\* calls of handleSend whose request has been issued and not yet settled
InFlight(ss) == { i \in 1..Len(ss) : ss[i].pc = "await" }

(* -------------------------------------------------------------------- C1 *)
\* C1: a send of text that is not blank appends exactly one user message
\* (isUser, content equal to the input, status 'sent') at the end of the
\* list, and it is there, still 'sent', while the request the send issued
\* has not been settled.
C1_SendAppendsPendingMessage ==
    [][ /\ (op'.name = "send" /\ ~Blank(input)) =>
             /\ Len(messages') = Len(messages) + 1
             /\ SubSeq(messages', 1, Len(messages)) = messages
             /\ messages'[Len(messages')].isUser
             /\ messages'[Len(messages')].content = input
             /\ messages'[Len(messages')].status = "sent"
             /\ Len(sends') = Len(sends) + 1
             /\ sends'[Len(sends')].messageId = messages'[Len(messages')].id
             /\ Len(sends') \in InFlight(sends')
        /\ \A i \in InFlight(sends') :
             \A k \in PositionsOf(messages', sends'[i].messageId) :
                messages'[k].status = "sent"
      ]_vars

\* a second send has been appended behind the first, both still pending
C1_Witness ==
    /\ op.name = "send"
    /\ Len(messages) = 2
    /\ InFlight(sends) = {1, 2}
    /\ messages[2].status = "sent"
    /\ messages[2].content = <<" ", "a">>

(* -------------------------------------------------------------------- C2 *)
\* C2: a send of blank (empty or whitespace-only) text changes nothing: the
\* message list, the input field, the loading flag and the persisted
\* chatHistory stay as they are and no request is issued.
C2_BlankSendIsNoOp ==
    [][ (op'.name = "send" /\ Blank(input)) =>
            /\ UNCHANGED <<messages, input, isLoading, sends, network>>
            /\ localStorage'.chatHistory = localStorage.chatHistory
      ]_vars

\* a whitespace-only send was made while a request was in flight
C2_Witness ==
    /\ op.name = "send"
    /\ input = <<" ">>
    /\ isLoading
    /\ Len(messages) = 1
    /\ InFlight(sends) = {1}

(* -------------------------------------------------------------------- C3 *)
\* the request settled with a 2xx whose body has a non-empty response field
SuccessOutcome(o) == o.kind = "2xx" /\ o.hasResponse /\ o.response # <<>>

\* the call's user message is delivered and exactly one bot message with the
\* call's response text stands somewhere behind it
DeliveredAndAnswered(i) ==
    /\ \A k \in PositionsOf(messages, sends[i].messageId) :
          /\ messages[k].status = "delivered"
          /\ \A j \in PositionsOf(messages, sends[i].botId) : j > k
    /\ Cardinality(PositionsOf(messages, sends[i].botId)) = 1
    /\ \A j \in PositionsOf(messages, sends[i].botId) :
          ~messages[j].isUser /\ messages[j].content = sends[i].botContent

\* C3: when a send's request gets a success response {response: X}, X not
\* empty, its user message becomes 'delivered' in the step that handles the
\* response, the bot-bubble timer that step sets eventually fires (or the page
\* is unloaded), and once it has fired, unless the chat was cleared since the
\* send, the user message is 'delivered' and exactly one bot message with
\* content X stands behind it.
C3_SuccessDeliversThenAnswers ==
    /\ [][ (op'.name = "resume" /\ SuccessOutcome(op'.outcome)) =>
              /\ \A k \in PositionsOf(messages, sends[op'.of].messageId) :
                    messages'[k].status = "delivered"
              /\ sends'[op'.of].pc = "timer"
              /\ sends'[op'.of].botContent = op'.outcome.response
          ]_vars
    /\ [](\A i \in 1..Len(sends) :
            (sends[i].pc = "done" /\ PositionsOf(messages, sends[i].messageId) # {})
                => DeliveredAndAnswered(i))
    /\ \A i \in 1..MaxSends :
          (i \in 1..Len(sends) /\ sends[i].pc = "timer")
              ~> (i \in 1..Len(sends) /\ sends[i].pc \in {"done", "unloaded"})

\* the first send was answered after a second one had been appended
C3_Witness ==
    /\ Len(sends) = 2
    /\ sends[1].pc = "done"
    /\ Len(messages) = 3
    /\ messages[1].id = sends[1].messageId
    /\ messages[1].status = "delivered"
    /\ messages[2].isUser
    /\ messages[3].id = sends[1].botId
    /\ messages[3].content = <<"X">>

(* -------------------------------------------------------------------- C4 *)
\* the request failed: no response, a non-2xx status, or a 2xx whose body has
\* no response field or an empty one
FailureOutcome(o) ==
    \/ o.kind \in {"network", "non2xx"}
    \/ o.kind = "2xx" /\ (~o.hasResponse \/ o.response = <<>>)

\* the last message of a list is a bot message
EndsWithBot(msgs) == msgs # <<>> /\ ~msgs[Len(msgs)].isUser

\* C4: when a send's request fails in any way, the step that handles the
\* failure rewrites the status of its user message to 'error' and changes
\* nothing else in the list, no bot-bubble timer is set for it then or later,
\* and every step that appends a bot message is the timer of a call whose
\* request succeeded.
C4_FailureMarksErrorNoBot ==
    [][ /\ (op'.name = "resume" /\ FailureOutcome(op'.outcome)) =>
              /\ Len(messages') = Len(messages)
              /\ \A k \in 1..Len(messages) :
                    messages'[k] =
                      IF messages[k].id = sends[op'.of].messageId
                      THEN [messages[k] EXCEPT !.status = "error"]
                      ELSE messages[k]
              /\ sends'[op'.of].pc = "failed"
        /\ \A i \in 1..Len(sends) :
              sends[i].pc = "failed" => sends'[i].pc \in {"failed", "unloaded"}
        /\ (Len(messages') > Len(messages) /\ EndsWithBot(messages')) =>
              \E i \in 1..Len(sends) :
                 /\ sends[i].pc = "timer"
                 /\ sends'[i].pc = "done"
                 /\ messages'[Len(messages')].id = sends[i].botId
      ]_vars

\* a 2xx with the payload {} has just been handled: the message is 'error'
\* and the list holds no bot message
C4_Witness ==
    /\ op.name = "resume"
    /\ op.outcome.kind = "2xx"
    /\ ~op.outcome.hasResponse
    /\ sends[op.of].pc = "failed"
    /\ \E k \in PositionsOf(messages, sends[op.of].messageId) :
          messages[k].status = "error"
    /\ \A k \in 1..Len(messages) : messages[k].isUser

(* -------------------------------------------------------------------- C5 *)
\* C5: once the chat has been cleared under a request in flight (or under
\* its pending bot-bubble timer), applying that request's result leaves the
\* list empty.
C5_ResultAfterClearIsNoOp ==
    [][ (messages = <<>> /\ op'.name \in {"resume", "timer"}) => messages' = <<>> ]_vars

(* -------------------------------------------------------------------- C6 *)
\* the status a call's user message must show, given where the call stands
StatusFor(pc) ==
    IF pc = "await" THEN {"sent"}
    ELSE IF pc = "failed" THEN {"error"}
    ELSE IF pc \in {"timer", "done"} THEN {"delivered"}
    ELSE {"sent", "delivered", "error"}

\* C6: with several sends in flight, the step that handles one request's
\* outcome rewrites the status of the user message with that call's id, to
\* 'delivered' on success and 'error' on failure, and leaves every other
\* message as it was, in whatever order the requests complete; so every user
\* message shows the status of its own call.
C6_CompletionTouchesOwnMessageOnly ==
    [][ /\ op'.name = "resume" =>
              /\ Len(messages') = Len(messages)
              /\ \A k \in 1..Len(messages) :
                    messages'[k] =
                      IF messages[k].id = sends[op'.of].messageId
                      THEN [messages[k] EXCEPT !.status =
                              IF SuccessOutcome(op'.outcome) THEN "delivered"
                              ELSE "error"]
                      ELSE messages[k]
        /\ \A i \in 1..Len(sends') :
              \A k \in PositionsOf(messages', sends'[i].messageId) :
                 messages'[k].status \in StatusFor(sends'[i].pc)
      ]_vars

\* the second of two overlapping sends has failed while the first is still
\* in flight
C6_Witness ==
    /\ op.name = "resume"
    /\ Len(sends) = 2
    /\ sends[1].pc = "await"
    /\ sends[2].pc = "failed"
    /\ Len(messages) = 2
    /\ messages[1].status = "sent"
    /\ messages[2].status = "error"

(* -------------------------------------------------------------------- C7 *)
\* C7: a user message only ever goes from 'sent' to 'delivered' or from
\* 'sent' to 'error'; a 'delivered' or 'error' message keeps its status for
\* as long as it is in the list.
C7_StatusTransitions ==
    [][ \A k \in 1..Len(messages) : \A j \in 1..Len(messages') :
          (/\ messages[k].isUser
           /\ messages'[j].id = messages[k].id
           /\ messages'[j].status # messages[k].status)
              => /\ messages[k].status = "sent"
                 /\ messages'[j].status \in {"delivered", "error"}
      ]_vars

\* a request has just completed next to a message that was already 'error'
C7_Witness ==
    /\ op.name = "resume"
    /\ Len(messages) = 2
    /\ messages[1].status = "error"
    /\ messages[2].status = "delivered"
    /\ op.of = 2

(* -------------------------------------------------------------------- C8 *)
\* the step adds one message at the end of the list
AppendsOne ==
    /\ Len(messages') = Len(messages) + 1
    /\ SubSeq(messages', 1, Len(messages)) = messages

\* the step rewrites the status of the message at position k and nothing else
RewritesStatusAt(k) ==
    /\ Len(messages') = Len(messages)
    /\ messages'[k].status # messages[k].status
    /\ messages'[k] = [messages[k] EXCEPT !.status = messages'[k].status]
    /\ \A j \in 1..Len(messages) : j # k => messages'[j] = messages[j]

\* positions of the user messages still 'sent'
Pending(msgs) == { k \in 1..Len(msgs) : msgs[k].isUser /\ msgs[k].status = "sent" }

\* C8 as stated: between clears every step leaves the list alone, appends one
\* message at the end, or rewrites the status of the most recent pending
\* user message in place.
C8_RewritesMostRecentPending ==
    [][ op'.name # "clear" =>
          \/ messages' = messages
          \/ AppendsOne
          \/ \E k \in Pending(messages) :
                /\ RewritesStatusAt(k)
                /\ \A j \in Pending(messages) : j <= k
      ]_vars

\* C8 as amended: between clears every step leaves the list alone, appends
\* one message at the end, or rewrites in place the status of one pending
\* user message, the one whose request the step completes, which need not be
\* the most recent pending one.
C8_RewritesCompletedPending ==
    [][ op'.name # "clear" =>
          \/ messages' = messages
          \/ AppendsOne
          \/ \E k \in Pending(messages) :
                /\ RewritesStatusAt(k)
                /\ op'.name = "resume"
                /\ messages[k].id = sends[op'.of].messageId
      ]_vars

\* the older of two pending messages has been rewritten, the newer is pending
C8_Witness ==
    /\ op.name = "resume"
    /\ op.of = 1
    /\ Len(messages) = 2
    /\ messages[1].status = "delivered"
    /\ messages[2].isUser
    /\ messages[2].status = "sent"

(* -------------------------------------------------------------------- C9 *)
\* a message list without its timestamps
Project(msgs) ==
    [k \in 1..Len(msgs) |->
        [id |-> msgs[k].id, content |-> msgs[k].content,
         isUser |-> msgs[k].isUser, status |-> msgs[k].status]]

\* C9: a new instance restores from chatHistory the list the previous
\* instance held: the same ids, content, isUser and status in the same order.
C9_RestoreRoundTrip ==
    [][ op'.name = "load" => Project(messages') = Project(messages) ]_vars

\* a new instance holds an errored message, a delivered one and a bot reply
C9_Witness ==
    /\ op.name = "load"
    /\ Len(messages) = 3
    /\ messages[1].status = "error"
    /\ messages[2].status = "delivered"
    /\ ~messages[3].isUser
    /\ messages[3].content = <<"X">>

(* ------------------------------------------------------------------- C10 *)
\* C10: a new instance started right after a clear restores an empty list.
C10_ClearThenRestoreIsEmpty ==
    [][ (op.name = "clear" /\ op'.name = "load") => messages' = <<>> ]_vars

\* a new instance holds an empty list although the previous one had sent
C10_Witness ==
    /\ op.name = "load"
    /\ messages = <<>>
    /\ Len(sends) = 2
    /\ sends[2].pc = "unloaded"

(* ------------------------------------------------------------------- C11 *)
\* C11: a load that finds chatHistory absent or ill-formed (not a parseable
\* serialized list) raises no error and starts with an empty message list.
C11_RestoreNeverFails ==
    (op.name = "load" /\ op.chatHistory \in {"null", "empty", "garbage", "nonlist"})
        => (~fatal /\ messages = <<>>)

(* ------------------------------------------------------------------- C12 *)
\* C12: once a handler and the effects it triggers have run, the persisted
\* chatHistory is the serialization of the whole current message list,
\* whether the handler appended, rewrote a status or cleared.
C12_StorageMirrorsList ==
    ~fatal => localStorage.chatHistory = StringItem(Stringify(messages))

\* a status update has reached the persisted copy
C12_Witness ==
    /\ op.name = "resume"
    /\ Len(messages) = 2
    /\ messages[1].status = "error"
    /\ localStorage.chatHistory.value[1].status = "error"
    /\ localStorage.chatHistory.value[2].status = "sent"

(* ------------------------------------------------------------------- C13 *)
\* C13: the request an accepted send issues carries the text sent as its
\* message and, as its platform, the platform selected when the send was
\* made, or "Other" when none was selected.
C13_RequestCarriesTextAndPlatform ==
    [][ (op'.name = "send" /\ ~Blank(input)) =>
          \E r \in network' :
             /\ r \notin network
             /\ r.of = sends'[Len(sends')].messageId
             /\ r.message = input
             /\ r.platform = IF selectedPlatform = NoPlatform THEN "Other"
                             ELSE selectedPlatform
      ]_vars

\* one request went out with no platform selected, the next with Segment
C13_Witness ==
    /\ op.name = "send"
    /\ selectedPlatform = "Segment"
    /\ \E r1, r2 \in network :
          /\ r1.of < r2.of
          /\ r1.platform = "Other"
          /\ r2.platform = "Segment"
          /\ r2.message = <<" ", "a">>

(* ------------------------------------------------------------------- C14 *)
\* the delivery statuses of the Message type
DeliveryStatuses == {"sent", "delivered", "error"}

\* C14 as stated: no bot message in the list carries a delivery status.
C14_BotHasNoStatus ==
    \A k \in 1..Len(messages) :
        ~messages[k].isUser => messages[k].status \notin DeliveryStatuses

\* C14 as amended: every bot message in the list carries the status
\* 'delivered', in every state, so it is never rewritten; 'sent' and 'error'
\* are carried by user messages only.
C14_BotStatusIsDelivered ==
    \A k \in 1..Len(messages) :
        ~messages[k].isUser => messages[k].status = "delivered"

\* a request has failed while a bot reply was in the list
C14_Witness ==
    /\ op.name = "resume"
    /\ sends[op.of].pc = "failed"
    /\ Len(messages) = 3
    /\ \E k \in 1..Len(messages) : ~messages[k].isUser
    /\ \E k \in 1..Len(messages) : messages[k].status = "error"

(* ------------------------------------------------------------------- C15 *)
\* C15 as stated: once the header's clear-chat action has been handled, the
\* message list is empty and the selected platform is back to absent.
C15_ClearResetsSession ==
    op.name = "clear" => (messages = <<>> /\ selectedPlatform = NoPlatform)

\* C15 as amended: the header's clear-chat action empties the message list
\* and leaves the selected platform as it was, in memory and in storage.
C15_ClearKeepsPlatform ==
    [][ op'.name = "clear" =>
          /\ messages' = <<>>
          /\ selectedPlatform' = selectedPlatform
          /\ localStorage'.selectedPlatform = localStorage.selectedPlatform
      ]_vars

\* a chat that had messages was cleared with Segment selected
C15_Witness ==
    /\ op.name = "clear"
    /\ messages = <<>>
    /\ Len(sends) = 2
    /\ selectedPlatform = "Segment"
    /\ localStorage.selectedPlatform = StringItem("Segment")

(* ------------------------------------------------------------------- C16 *)
\* C16: in a new instance the selected platform is the one a previous
\* instance persisted under selectedPlatform; it is absent only when none is
\* persisted.
C16_PlatformRestoredAtStart ==
    \A p \in platforms :
        (op.name = "load" /\ ~fatal /\ localStorage.selectedPlatform = StringItem(p))
            => selectedPlatform = p

(* ------------------------------------------------------------------- C17 *)
\* C17: a clear empties the message list and removes the persisted copy:
\* after a clear has been processed, storage holds no chatHistory entry.
C17_ClearRemovesEntry ==
    op.name = "clear" => (messages = <<>> /\ localStorage.chatHistory = NullItem)

\* C17 as the code has it: a clear empties the message list, and the persist
\* effect then overwrites the chatHistory entry with the serialization of the
\* empty list; the entry stays present.
C17_ClearStoresEmptyList ==
    op.name = "clear" =>
        /\ messages = <<>>
        /\ localStorage.chatHistory = StringItem(Stringify(<<>>))
        /\ localStorage.chatHistory # NullItem

\* a clear of a list that held a failed message and its successor: the entry
\* is the empty serialized list
C17_Witness ==
    /\ op.name = "clear"
    /\ Len(sends) = 2
    /\ sends[1].pc = "failed"
    /\ sends[2].pc = "await"
    /\ messages = <<>>
    /\ localStorage.chatHistory = StringItem(<<>>)

(* ------------------------------------------------------------------- C18 *)
\* C18: each accepted send issues exactly one request to the answer service
\* and a request is never retried: an accepted send puts exactly one new
\* request, that of the new call, in flight; no other step puts a request in
\* flight; and once a call's request has settled, with success or failure,
\* no request of that call is in flight. So the requests issued over a run
\* are as many as the accepted sends.
C18_OneRequestPerAcceptedSend ==
    [][ /\ (op'.name = "send" /\ ~Blank(input)) =>
             /\ Len(sends') = Len(sends) + 1
             /\ \E r \in network' :
                  /\ r \notin network
                  /\ network' = network \cup {r}
                  /\ r.of = sends'[Len(sends')].messageId
        /\ ~(op'.name = "send" /\ ~Blank(input)) => network' \subseteq network
        /\ op'.name = "resume" =>
             \A r \in network' : r.of # sends[op'.of].messageId ]_vars

\* two accepted sends, both requests failed, the second with a non-2xx
\* answer: nothing is in flight
C18_Witness ==
    /\ op.name = "resume"
    /\ op.outcome.kind = "non2xx"
    /\ Len(sends) = 2
    /\ sends[1].pc = "failed"
    /\ sends[2].pc = "failed"
    /\ network = {}

(* ------------------------------------------------------------------- C19 *)
\* the description a failure's notification is to carry: the server's detail
\* when the answer has one, else the failure's own message
ExpectedDescription(o) ==
    IF o.kind = "non2xx" /\ o.hasDetail THEN "detail"
    ELSE IF o.kind = "non2xx" THEN "Request failed with status code"
    ELSE IF o.kind = "network" THEN "Network Error"
    ELSE "Invalid response format from server"

\* C19: every failed request raises exactly one user-visible error
\* notification and no error leaves send: the step that handles a failure
\* passes exactly one toast, of status 'error', whose description is the
\* server-provided detail when present and else the failure's own message,
\* and the page keeps running; no other step raises an error notification.
\* (Every failure the answer service or the validation produces has a
\* message, so the generic text is never shown.)
C19_FailureRaisesOneNotification ==
    /\ (op.name = "resume" /\ FailureOutcome(op.outcome)) =>
          /\ toasts = <<Toast("Error", ExpectedDescription(op.outcome), "error")>>
          /\ toasts[1].description # "Failed to get response"
          /\ ~fatal
          /\ ~isLoading
    /\ ~(op.name = "resume" /\ FailureOutcome(op.outcome)) =>
          \A k \in 1..Len(toasts) : toasts[k].status # "error"

\* a non-2xx answer with a detail has just been handled, after an earlier
\* request had succeeded: the one notification carries the detail
C19_Witness ==
    /\ op.name = "resume"
    /\ op.outcome.kind = "non2xx"
    /\ op.outcome.hasDetail
    /\ Len(toasts) = 1
    /\ toasts[1].description = "detail"
    /\ Len(sends) = 2
    /\ sends[1].pc = "done"
    /\ sends[2].pc = "failed"

(* ------------------------------------------------------------------- C20 *)
\* the bot message of call i is in the list
BotInList(msgs, ss, i) ==
    ss[i].botId # NoId /\ PositionsOf(msgs, ss[i].botId) # {}

\* C20: on a successful response the delivered tick strictly precedes the bot
\* bubble. The step in which a call's bot message enters the list is a timer
\* step, and it starts from a list in which the call's user message already
\* has status 'delivered'; whenever a call's bot message is in the list, the
\* call's user message, if in the list, has status 'delivered' and stands
\* before it; and only a clear or a load takes a message out of the list, so
\* with no clear since the send the user message is in the list.
C20_DeliveredBeforeBot ==
    [][ /\ \A i \in 1..Len(sends') :
             /\ (BotInList(messages', sends', i) /\ ~BotInList(messages, sends', i)) =>
                   /\ op'.name = "timer"
                   /\ \A k \in PositionsOf(messages, sends'[i].messageId) :
                         messages[k].status = "delivered"
             /\ BotInList(messages', sends', i) =>
                   \A k \in PositionsOf(messages', sends'[i].messageId) :
                      /\ messages'[k].status = "delivered"
                      /\ \A j \in PositionsOf(messages', sends'[i].botId) : k < j
        /\ op'.name \notin {"clear", "load"} =>
             \A k \in 1..Len(messages) : PositionsOf(messages', messages[k].id) # {}
      ]_vars

\* the timer of the only call has just fired: the delivered user message is
\* followed by its bot message
C20_Witness ==
    /\ op.name = "timer"
    /\ Len(sends) = 1
    /\ sends[1].pc = "done"
    /\ Len(messages) = 2
    /\ messages[1].id = sends[1].messageId
    /\ messages[1].status = "delivered"
    /\ messages[2].id = sends[1].botId
    /\ ~messages[2].isUser

(* ------------------------------------------------------------------- C21 *)
\* C21: the loading flag is released: in every state in which every request
\* issued so far has completed, with success or failure, none being in
\* flight, the loading flag is false, for any number and interleaving of
\* sends.
C21_LoadingReleased ==
    (InFlight(sends) = {} /\ network = {}) => ~isLoading

\* two overlapping sends, the second answered first and the first failing
\* last: nothing is in flight and the flag is down
C21_Witness ==
    /\ op.name = "resume"
    /\ op.of = 1
    /\ Len(sends) = 2
    /\ sends[1].pc = "failed"
    /\ sends[2].pc \in {"timer", "done"}
    /\ network = {}
    /\ ~isLoading

(* ------------------------------------------------------------------- C22 *)
\* C22: the loading flag is true in every state in which at least one
\* request is still in flight, also when several sends overlap and only some
\* of them have completed.
C22_LoadingWhileInFlight ==
    InFlight(sends) # {} => isLoading

====
